---- MODULE Spec2Model ----
(***************************************************************************)
(* Catalog synchronisation of CoolVoce: js/offers-loader.js, the iteration *)
(* with TTL, conditional fetch and background refresh (lines 61-230).      *)
(*                                                                         *)
(* Time is in milliseconds, as Date.now() gives it.  A JSON object is the  *)
(* ordered sequence of its entries (JSON.stringify and JSON.parse keep the *)
(* insertion order); two objects are structurally equal when they hold the *)
(* same entries in any order.                                              *)
(*                                                                         *)
(* The history of generated links, js/link-renderer.js lines 208-237, is   *)
(* the variable history with its own specification, SpecHistory.  The list *)
(* of link boxes (createRenderer, driven by initLinkController) is         *)
(* SpecLinks, with SpecGenerate for what the form can hold, and            *)
(* js/theme-toggle.js is SpecTheme.                                        *)
(***************************************************************************)
EXTENDS Integers, Sequences, FiniteSets, TLC

\* ------------------------------------------------------------------ bounds
NRuns == 2          \* invocations of loadOffers the model has room for
MaxTicks == 2       \* hours the clock may advance during one page's life

Runs == 1 .. NRuns
Hour == 60 * 60 * 1000
StartNow == 48 * Hour

\* --------------------------------------------------------------- constants
TTL_MS == 24 * 60 * 60 * 1000

\* ------------------------------------------------------------- JSON values
Null == "null"              \* the JS value null, where a string is expected
Undef == "undefined"        \* a missing property, where a string is expected

Range(s) == { s[i] : i \in 1 .. Len(s) }

JUndefined == [kind |-> "undefined", keys |-> <<>>]
JNull == [kind |-> "null", keys |-> <<>>]
JObj(ks) == [kind |-> "object", keys |-> ks]
EmptyObj == JObj(<<>>)
JOne == [kind |-> "number", keys |-> <<>>]     \* the JSON text 1

\* JS truthiness of a JSON value: objects are truthy, also the empty one, and
\* so is the number 1.
Truthy(v) == v.kind \notin {"undefined", "null"}

\* JS truthiness of a string-or-null property.
TruthyStr(s) == s \notin {"", Null, Undef}

\* x || null
OrNull(s) == IF TruthyStr(s) THEN s ELSE Null

\* JSON.stringify of a JSON value: the entries in insertion order.
Stringify(v) ==
  IF v.kind = "null" THEN <<"null">>
  ELSE IF v.kind = "undefined" THEN <<>>
  ELSE IF v.kind = "number" THEN <<"1">>
  ELSE <<"{">> \o v.keys \o <<"}">>

\* JSON.parse of the text of a JSON value (<<>>: the property is missing).
ParseJson(t) ==
  IF t = <<>> THEN JUndefined
  ELSE IF t = <<"null">> THEN JNull
  ELSE IF t = <<"1">> THEN JOne
  ELSE JObj(SubSeq(t, 2, Len(t) - 1))

\* ----------------------------------------------------------- cache records
\* The value readCache returns: null, or the parsed object.
NullRecord ==
  [kind |-> "null", etag |-> Undef, lastModified |-> Undef, timestamp |-> 0,
   data |-> JUndefined]
Record(e, lm, ts, d) ==
  [kind |-> "object", etag |-> e, lastModified |-> lm, timestamp |-> ts, data |-> d]

\* The item under CACHE_KEY in localStorage: absent, or a text.
NoItem ==
  [raw |-> "absent", etag |-> Undef, lastModified |-> Undef, timestamp |-> 0,
   data |-> <<>>]
\* JSON.stringify(payload) of writeCache, line 93.
Serialize(rec) ==
  [raw |-> "json", etag |-> rec.etag, lastModified |-> rec.lastModified,
   timestamp |-> rec.timestamp, data |-> Stringify(rec.data)]

\* readCache, lines 74-83: a missing item and an unparseable text give null.
readCache(item) ==
  IF item.raw = "absent" THEN NullRecord
  ELSE IF item.raw # "json" THEN NullRecord
  ELSE Record(item.etag, item.lastModified, item.timestamp, ParseJson(item.data))

CachePayloadStampsNow(e, lm, d, ts, t) ==
  [kind |-> "object", etag |-> OrNull(e), lastModified |-> OrNull(lm),
   timestamp |-> t, data |-> IF Truthy(d) THEN d ELSE EmptyObj]

\* The object writeCache builds, lines 87-92; t is Date.now().
CachePayload(e, lm, d, ts, t) ==
  Record(OrNull(e), OrNull(lm), IF ts # 0 THEN ts ELSE t,
         IF Truthy(d) THEN d ELSE EmptyObj)

\* Mutant: a failed write removes the item.
writeCacheClearsOnFailure(item, ok, e, lm, d, ts, t) ==
  IF ok THEN Serialize(CachePayload(e, lm, d, ts, t)) ELSE NoItem

\* writeCache, lines 85-97: the item afterwards; a throwing setItem is swallowed.
writeCache(item, ok, e, lm, d, ts, t) ==
  IF ok THEN Serialize(CachePayload(e, lm, d, ts, t)) ELSE item

\* cached && cached.data
HasData(c) == c.kind # "null" /\ Truthy(c.data)

\* Mutant: the TTL boundary counted as fresh.
IsFreshInclusive(c, t) ==
  c.kind # "null" /\ c.timestamp # 0 /\ (t - c.timestamp) <= TTL_MS

\* Line 172: the cached copy is still within the TTL.
IsFresh(c, t) == c.kind # "null" /\ c.timestamp # 0 /\ (t - c.timestamp) < TTL_MS

\* Lines 204-209 and 214-219: the cached data if present, else {}.
Fallback(c) == IF HasData(c) THEN c.data ELSE EmptyObj

\* Mutant: every fetched body counts as a change.
ContentAlwaysDiffers(c, json) == TRUE

\* Mutant: no fetched body counts as a change.
ContentNeverDiffers(c, json) == FALSE

\* Lines 125-128: the serialized fetched body differs from the cached one.
\* cachedStr is null when there is no cached data: it differs from any text.
ContentDiffers(c, json) ==
  IF HasData(c) THEN Stringify(c.data) # Stringify(json) ELSE TRUE

\* Mutant: If-Modified-Since is sent only next to If-None-Match.
RequestHeadersTagFirst(c) ==
  [kind |-> "headers",
   etag |-> IF c.kind # "null" /\ TruthyStr(c.etag) THEN c.etag ELSE Undef,
   lastModified |->
     IF c.kind # "null" /\ TruthyStr(c.etag) /\ TruthyStr(c.lastModified)
     THEN c.lastModified ELSE Undef,
   timestamp |-> 0, data |-> JUndefined]

\* Lines 107-111: the conditional headers of the request.
RequestHeaders(c) ==
  [kind |-> "headers",
   etag |-> IF c.kind # "null" /\ TruthyStr(c.etag) THEN c.etag ELSE Undef,
   lastModified |->
     IF c.kind # "null" /\ TruthyStr(c.lastModified) THEN c.lastModified ELSE Undef,
   timestamp |-> 0, data |-> JUndefined]

\* ------------------------------------------------------------ value domains
Bodies ==
  { JNull, JOne, EmptyObj, JObj(<<"a">>), JObj(<<"a", "b">>), JObj(<<"b", "a">>) }
EtagHeaders == { Null, "", "v1", "v2" }         \* res.headers.get('ETag')
LastModHeaders == { Null, "Mon" }               \* res.headers.get('Last-Modified')
BadStatuses == { 404, 500 }
Ages == { Hour, TTL_MS - 1, TTL_MS, TTL_MS + Hour }

\* The records writeCache can have left in the store before this page load.
WrittenItems ==
  { Serialize(CachePayload(e, lm, d, StartNow - a, StartNow)) :
      e \in {Null, "v1"}, lm \in LastModHeaders,
      d \in {EmptyObj, JObj(<<"a">>), JObj(<<"a", "b">>)}, a \in Ages }

\* What the origin can answer a request with: the bodies, the ETag and
\* Last-Modified headers of a 200, the statuses that are neither 200 nor 304.
Origin(bodies, etags, lastMods, statuses) ==
  [bodies |-> bodies, etags |-> etags, lastMods |-> lastMods, statuses |-> statuses]
AnyOrigin == Origin(Bodies, EtagHeaders, LastModHeaders, BadStatuses)

NoResponse == [status |-> 0, etag |-> Null, lastModified |-> Null]
NoArg == NullRecord

VARIABLES
  protocol,    \* location.protocol
  origin,      \* the answers the server behind the catalog URL can give
  storageOk,   \* localStorage.setItem succeeds (no quota error, not disabled)
  handlerThrows, \* document.dispatchEvent raises an exception
  now,         \* Date.now()
  store,       \* localStorage item under CACHE_KEY
  offers,      \* window.CoolVoceOffers
  log,         \* the effects so far, in order: fetch, write, loaded, updated
  pc,          \* per run: where loadOffers / backgroundRefresh stands
  cached,      \* per run: const cached = readCache()
  res,         \* per run: the response the fetch resolved with
  json,        \* per run: const json = await res.json()
  err,         \* per run: the error caught, "none" if none
  written,     \* the object a caller hands to writeCache
  readBack,    \* the value readCache returned to that caller
  history,     \* localStorage item under HISTORY_KEY, parsed
  boxes,       \* the .link-box elements of the container, in document order
  pending,     \* the removeByElement calls not yet cleaned up, oldest first
  badge,       \* the text of the count badge
  events,      \* what the link controller and the renderer signalled, in order
  clears,      \* per click on "clear all": the boxes found, the links made so far
  made,        \* the number of boxes created so far
  form,        \* the values of the custom-code input and of the offer select
  themeStored, \* localStorage item under 'cv-theme'
  systemDark,  \* matchMedia('(prefers-color-scheme: dark)').matches
  pageDark,    \* <html> and <body> carry the class 'dark'
  explicit,    \* the user has chosen a theme (toggled, now or on a past visit)
  themePc,     \* theme-toggle: "loading" until the DOM is ready
  themeFile    \* the <link id="cv-theme-file"> element, if any

loaderVars ==
  <<protocol, origin, handlerThrows, now, store, offers, log, pc, cached, res, json, err>>
rtVars == <<written, readBack>>
uiVars == <<boxes, pending, badge, events, clears, made, form>>
themeVars == <<themeStored, systemDark, pageDark, explicit, themePc, themeFile>>
appVars == <<history, uiVars, themeVars>>
vars ==
  <<protocol, origin, storageOk, handlerThrows, now, store, offers, log, pc, cached,
    res, json, err, written, readBack, history, uiVars, themeVars>>

\* ------------------------------------------------------------------ effects
Emit(l, type, r, o, arg) ==
  Append(l, [type |-> type, run |-> r, offers |-> o, arg |-> arg])

\* notifyLoaded, lines 67-69; o is what a listener reads in window.CoolVoceOffers.
notifyLoaded(l, r, o) == Emit(l, "loaded", r, o, NoArg)

\* notifyUpdated, lines 70-72.
notifyUpdated(l, r, o, detail) == Emit(l, "updated", r, o, detail)

\* fetchWithConditionalHeaders, lines 106-114: the request goes out.
fetchWithConditionalHeaders(l, r, o, c) == Emit(l, "fetch", r, o, RequestHeaders(c))

\* localStorage.setItem succeeded: the store holds the new item.
Written(l, r, o, new, ok) ==
  IF ok THEN Emit(l, "write", r, o, readCache(new)) ELSE l

\* Mutant: the refresh is started without the 'offers:loaded' notification.
ServeWithoutNotify(l, r, o, c) == fetchWithConditionalHeaders(l, r, o, c)

\* Mutant: the refresh request goes out before 'offers:loaded'.
RefreshThenServe(l, r, o, c) ==
  notifyLoaded(fetchWithConditionalHeaders(l, r, o, c), r, o)

\* The fresh-cache path, lines 175-177: notify, then kick off the refresh.
ServeThenRefresh(l, r, o, c) ==
  fetchWithConditionalHeaders(notifyLoaded(l, r, o), r, o, c)

\* Mutant: no finally block.
FinallyMissing(l, r, o) == l

\* The finally block of loadOffers, lines 220-222.
Finally(l, r, o) == notifyLoaded(l, r, o)

Settled == {"doneOffline", "doneBlocking", "doneBg"}

\* Mutant: dispatchEvent is called outside any try block.
EscapesUnprotected(raised) == raised

\* Lines 68 and 71: dispatchEvent is called inside try { } catch (e) {}, so an
\* exception it raises does not leave notifyLoaded or notifyUpdated.
Escapes(raised) == FALSE

\* Where a run stands after notifyLoaded: an exception that left it would
\* reject the promise of loadOffers there.
AfterNotify(raised, next) == IF Escapes(raised) THEN "rejected" ELSE next

\* --------------------------------------------------------------------- Init
\* The link list before any link was generated.
UiIdle ==
  /\ boxes = <<>>
  /\ pending = <<>>
  /\ badge = 0
  /\ events = <<>>
  /\ clears = <<>>
  /\ made = 0
  /\ form = [custom |-> <<>>, selected |-> <<>>]   \* nothing typed, nothing picked

\* theme-toggle before DOMContentLoaded, on a first visit.
NoThemeFile == [theme |-> "none", state |-> "none", detached |-> {}]
ThemeIdle ==
  /\ themeStored = "none"
  /\ systemDark = FALSE
  /\ pageDark = FALSE
  /\ explicit = FALSE
  /\ themePc = "loading"
  /\ themeFile = NoThemeFile

InitCommon ==
  /\ protocol \in {"file:", "http:"}
  /\ origin = AnyOrigin
  /\ storageOk = TRUE
  /\ handlerThrows = FALSE
  /\ now = StartNow
  /\ store \in WrittenItems \cup {NoItem}
  /\ offers = JUndefined
  /\ log = <<>>
  /\ cached = [r \in Runs |-> NullRecord]
  /\ res = [r \in Runs |-> NoResponse]
  /\ json = [r \in Runs |-> JUndefined]
  /\ err = [r \in Runs |-> "none"]
  /\ written = NullRecord
  /\ readBack = NullRecord
  /\ history = <<>>
  /\ UiIdle
  /\ ThemeIdle

\* Lines 225-229: the page invokes loadOffers once.
Init ==
  /\ InitCommon
  /\ pc = [r \in Runs |-> IF r = 1 THEN "start" ELSE "off"]

\* ------------------------------------------------- loadOffers, to its first await
\* Line 154: window.CoolVoceOffers = window.CoolVoceOffers || {}.
InitialOffers(o) == IF Truthy(o) THEN o ELSE EmptyObj

\* Mutant: file: mode ignores the cache.
OfflineServeEmpty(c) == EmptyObj

\* Lines 159-165: what file: mode serves.
OfflineServe(c) == IF HasData(c) THEN c.data ELSE EmptyObj

\* Lines 153-168: the file: protocol, cache only.
Offline(r) ==
  /\ pc[r] = "start"
  /\ protocol = "file:"
  /\ LET c == readCache(store)
         o == OfflineServe(c)
     IN /\ cached' = [cached EXCEPT ![r] = c]
        /\ offers' = o
        /\ log' = notifyLoaded(log, r, o)
  /\ pc' = [pc EXCEPT ![r] = AfterNotify(handlerThrows, "doneOffline")]
  /\ UNCHANGED <<protocol, origin, storageOk, handlerThrows,
               now, store, res, json, err,
               rtVars, appVars>>

\* Lines 153-155, 170-179: a cached copy within the TTL is served at once.
ServeFreshCache(r) ==
  /\ pc[r] = "start"
  /\ protocol # "file:"
  /\ LET c == readCache(store)
         o == IF Truthy(c.data) THEN c.data ELSE EmptyObj
     IN /\ IsFresh(c, now)
        /\ cached' = [cached EXCEPT ![r] = c]
        /\ offers' = o
        /\ log' = IF Escapes(handlerThrows)
                  THEN notifyLoaded(log, r, o)
                  ELSE ServeThenRefresh(log, r, o, c)
  /\ pc' = [pc EXCEPT ![r] = AfterNotify(handlerThrows, "bgFetch")]
  /\ UNCHANGED <<protocol, origin, storageOk, handlerThrows,
               now, store, res, json, err,
               rtVars, appVars>>

\* Lines 153-155, 181-183: no cached copy, or a stale one: fetch and await.
BlockingFetch(r) ==
  /\ pc[r] = "start"
  /\ protocol # "file:"
  /\ LET c == readCache(store)
         o == InitialOffers(offers)
     IN /\ ~IsFresh(c, now)
        /\ cached' = [cached EXCEPT ![r] = c]
        /\ offers' = o
        /\ log' = fetchWithConditionalHeaders(log, r, o, c)
  /\ pc' = [pc EXCEPT ![r] = "fetch"]
  /\ UNCHANGED <<protocol, origin, storageOk, handlerThrows,
               now, store, res, json, err,
               rtVars, appVars>>

\* ------------------------------------------------------ the outcome handlers
\* Each gives the store, the served catalog and the log the handler leaves.

\* Mutant: the blocking path announces the fetched body as a change too.
BlockingFreshAnnounces(item, ok, l, r, o, body, e, lm, t) ==
  [store |-> writeCache(item, ok, e, lm, body, t, t), offers |-> body,
   log |-> Emit(Written(l, r, o, writeCache(item, ok, e, lm, body, t, t), ok),
                "updated", r, body, NoArg)]

\* Lines 186-190: a parsed body in the blocking path; t is Date.now().
BlockingFresh(item, ok, l, r, o, body, e, lm, t) ==
  LET new == writeCache(item, ok, e, lm, body, t, t)
  IN [store |-> new, offers |-> body, log |-> Written(l, r, o, new, ok)]

\* Mutant: 304 serves the cached copy without restarting its TTL.
BlockingNotModifiedNoTouch(item, ok, l, r, c, t) ==
  [store |-> item, offers |-> IF HasData(c) THEN c.data ELSE EmptyObj, log |-> l]

\* Mutant: a 304 without cached data persists an empty record.
BlockingNotModifiedWritesEmpty(item, ok, l, r, c, t) ==
  [store |-> writeCache(item, ok, Null, Null, EmptyObj, t, t), offers |-> EmptyObj,
   log |-> l]

\* Lines 191-201: 304 in the blocking path.
BlockingNotModified(item, ok, l, r, c, t) ==
  IF HasData(c)
  THEN LET new == writeCache(item, ok, c.etag, c.lastModified, c.data, t, t)
       IN [store |-> new, offers |-> c.data, log |-> Written(l, r, c.data, new, ok)]
  ELSE [store |-> item, offers |-> EmptyObj, log |-> l]

\* Mutant: a failure serves the empty mapping although a copy is cached.
BlockingFailedEmpty(item, l, c) ==
  [store |-> item, offers |-> EmptyObj, log |-> l]

\* Mutant: a failure drops the cached record.
BlockingFailedClears(item, l, c) ==
  [store |-> NoItem, offers |-> Fallback(c), log |-> l]

\* Lines 202-219: another status, a rejected fetch, a timeout, a body that
\* does not parse: fall back to the cached data, write nothing.
BlockingFailed(item, l, c) ==
  [store |-> item, offers |-> Fallback(c), log |-> l]

\* The detail of 'offers:updated', line 131; t is its own Date.now().
UpdatedDetail(e, lm, t) ==
  [kind |-> "detail", etag |-> e, lastModified |-> lm, timestamp |-> t,
   data |-> JUndefined]

\* Mutant: the refresh stores the new body under the validators it had read.
RefreshFreshKeepsValidators(item, ok, l, r, o, c, body, e, lm, t, t2) ==
  [store |-> writeCache(item, ok, c.etag, c.lastModified, body, t, t),
   offers |-> IF ContentDiffers(c, body) THEN body ELSE o,
   log |-> Written(l, r, o, writeCache(item, ok, c.etag, c.lastModified, body, t, t),
                   ok)]

\* Lines 122-135: a parsed body in the refresh; t is Date.now() of line 127
\* and t2 the one of line 131.
RefreshFresh(item, ok, l, r, o, c, body, e, lm, t, t2) ==
  LET new == writeCache(item, ok, e, lm, body, t, t)
      l2 == Written(l, r, o, new, ok)
  IN IF ContentDiffers(c, body)
     THEN [store |-> new, offers |-> body,
           log |-> notifyUpdated(l2, r, body, UpdatedDetail(e, lm, t2))]
     ELSE [store |-> new, offers |-> o, log |-> l2]

\* Mutant: 304 in the refresh keeps the timestamp of the record it read.
RefreshNotModifiedStaleStamp(item, ok, l, r, o, c, t) ==
  IF HasData(c)
  THEN [store |-> writeCache(item, ok, c.etag, c.lastModified, c.data, c.timestamp, t),
        offers |-> o,
        log |-> Written(l, r, o, writeCache(item, ok, c.etag, c.lastModified,
                                            c.data, c.timestamp, t), ok)]
  ELSE [store |-> item, offers |-> o, log |-> l]

\* Lines 136-143: 304 in the refresh.
RefreshNotModified(item, ok, l, r, o, c, t) ==
  IF HasData(c)
  THEN LET new == writeCache(item, ok, c.etag, c.lastModified, c.data, t, t)
       IN [store |-> new, offers |-> o, log |-> Written(l, r, o, new, ok)]
  ELSE [store |-> item, offers |-> o, log |-> l]

\* Lines 144-150: a failed refresh keeps the cache and what is served.
RefreshFailed(item, l, o) == [store |-> item, offers |-> o, log |-> l]

\* ------------------------------------------- loadOffers, the awaited outcome
\* Lines 183-185: status 200; res.json() is awaited next.
BlockingHeaders(r) ==
  /\ pc[r] = "fetch"
  /\ \E e \in origin.etags, lm \in origin.lastMods :
       res' = [res EXCEPT ![r] = [status |-> 200, etag |-> e, lastModified |-> lm]]
  /\ pc' = [pc EXCEPT ![r] = "json"]
  /\ UNCHANGED <<protocol, origin, storageOk, handlerThrows,
               now, store, offers, log, cached,
               json, err,
               rtVars, appVars>>

\* Lines 185-190, 220-222: the body parsed; cache it, serve it, notify.
BlockingJson(r) ==
  /\ pc[r] = "json"
  /\ \E body \in origin.bodies :
       LET out == BlockingFresh(store, storageOk, log, r, offers, body,
                                OrNull(res[r].etag), OrNull(res[r].lastModified), now)
       IN /\ json' = [json EXCEPT ![r] = body]
          /\ store' = out.store
          /\ offers' = out.offers
          /\ log' = Finally(out.log, r, out.offers)
  /\ pc' = [pc EXCEPT ![r] = AfterNotify(handlerThrows, "doneBlocking")]
  /\ UNCHANGED <<protocol, origin, storageOk, handlerThrows,
               now, cached, res, err, rtVars, appVars>>

\* Lines 191-201, 220-222: 304 Not Modified.
Blocking304(r) ==
  /\ pc[r] = "fetch"
  /\ res' = [res EXCEPT ![r] = [status |-> 304, etag |-> Null, lastModified |-> Null]]
  /\ LET out == BlockingNotModified(store, storageOk, log, r, cached[r], now)
     IN /\ store' = out.store
        /\ offers' = out.offers
        /\ log' = Finally(out.log, r, out.offers)
  /\ pc' = [pc EXCEPT ![r] = AfterNotify(handlerThrows, "doneBlocking")]
  /\ UNCHANGED <<protocol, origin, storageOk, handlerThrows,
               now, cached, json, err, rtVars, appVars>>

\* Lines 202-210, 220-222: any other status.
BlockingBadStatus(r) ==
  /\ pc[r] = "fetch"
  /\ \E s \in origin.statuses :
       res' = [res EXCEPT ![r] = [status |-> s, etag |-> Null, lastModified |-> Null]]
  /\ LET out == BlockingFailed(store, log, cached[r])
     IN /\ store' = out.store
        /\ offers' = out.offers
        /\ log' = Finally(out.log, r, out.offers)
  /\ pc' = [pc EXCEPT ![r] = AfterNotify(handlerThrows, "doneBlocking")]
  /\ UNCHANGED <<protocol, origin, storageOk, handlerThrows,
               now, cached, json, err, rtVars, appVars>>

\* Lines 211-222: the fetch rejected (network error) or the 10 s timer fired.
BlockingReject(r) ==
  /\ pc[r] = "fetch"
  /\ \E cause \in {"network", "timeout"} : err' = [err EXCEPT ![r] = cause]
  /\ LET out == BlockingFailed(store, log, cached[r])
     IN /\ store' = out.store
        /\ offers' = out.offers
        /\ log' = Finally(out.log, r, out.offers)
  /\ pc' = [pc EXCEPT ![r] = AfterNotify(handlerThrows, "doneBlocking")]
  /\ UNCHANGED <<protocol, origin, storageOk, handlerThrows,
               now, cached, res, json, rtVars, appVars>>

\* Lines 185, 211-222: res.json() rejected, the body is no JSON.
BlockingJsonReject(r) ==
  /\ pc[r] = "json"
  /\ err' = [err EXCEPT ![r] = "parse"]
  /\ LET out == BlockingFailed(store, log, cached[r])
     IN /\ store' = out.store
        /\ offers' = out.offers
        /\ log' = Finally(out.log, r, out.offers)
  /\ pc' = [pc EXCEPT ![r] = AfterNotify(handlerThrows, "doneBlocking")]
  /\ UNCHANGED <<protocol, origin, storageOk, handlerThrows,
               now, cached, res, json, rtVars, appVars>>

\* --------------------------------------------------------- backgroundRefresh
\* Lines 119-121: status 200; res.json() is awaited next.
BgHeaders(r) ==
  /\ pc[r] = "bgFetch"
  /\ \E e \in origin.etags, lm \in origin.lastMods :
       res' = [res EXCEPT ![r] = [status |-> 200, etag |-> e, lastModified |-> lm]]
  /\ pc' = [pc EXCEPT ![r] = "bgJson"]
  /\ UNCHANGED <<protocol, origin, storageOk, handlerThrows,
               now, store, offers, log, cached,
               json, err,
               rtVars, appVars>>

\* Lines 121-135: the body parsed; cache it, and notify if the content changed.
\* Line 131 reads the clock again: it may have moved on by a millisecond.
\* An exception leaving notifyUpdated would be caught at line 147.
BgJson(r) ==
  /\ pc[r] = "bgJson"
  /\ \E body \in origin.bodies, t2 \in {now, now + 1} :
       LET out == RefreshFresh(store, storageOk, log, r, offers, cached[r], body,
                               OrNull(res[r].etag), OrNull(res[r].lastModified),
                               now, t2)
       IN /\ json' = [json EXCEPT ![r] = body]
          /\ store' = out.store
          /\ offers' = out.offers
          /\ log' = out.log
          /\ now' = IF ContentDiffers(cached[r], body) THEN t2 ELSE now
          /\ err' = IF ContentDiffers(cached[r], body) /\ Escapes(handlerThrows)
                    THEN [err EXCEPT ![r] = "dispatch"]
                    ELSE err
  /\ pc' = [pc EXCEPT ![r] = "doneBg"]
  /\ UNCHANGED <<protocol, origin, storageOk, handlerThrows,
               cached, res, rtVars, appVars>>

\* Lines 136-143: 304 Not Modified, the TTL restarts.
Bg304(r) ==
  /\ pc[r] = "bgFetch"
  /\ res' = [res EXCEPT ![r] = [status |-> 304, etag |-> Null, lastModified |-> Null]]
  /\ LET out == RefreshNotModified(store, storageOk, log, r, offers, cached[r], now)
     IN /\ store' = out.store
        /\ offers' = out.offers
        /\ log' = out.log
  /\ pc' = [pc EXCEPT ![r] = "doneBg"]
  /\ UNCHANGED <<protocol, origin, storageOk, handlerThrows,
               now, cached, json, err, rtVars, appVars>>

\* Lines 144-146: any other status is only logged.
BgBadStatus(r) ==
  /\ pc[r] = "bgFetch"
  /\ \E s \in origin.statuses :
       res' = [res EXCEPT ![r] = [status |-> s, etag |-> Null, lastModified |-> Null]]
  /\ LET out == RefreshFailed(store, log, offers)
     IN /\ store' = out.store
        /\ offers' = out.offers
        /\ log' = out.log
  /\ pc' = [pc EXCEPT ![r] = "doneBg"]
  /\ UNCHANGED <<protocol, origin, storageOk, handlerThrows,
               now, cached, json, err, rtVars, appVars>>

\* Lines 147-150: the fetch rejected or timed out; the cache is kept.
BgReject(r) ==
  /\ pc[r] = "bgFetch"
  /\ \E cause \in {"network", "timeout"} : err' = [err EXCEPT ![r] = cause]
  /\ LET out == RefreshFailed(store, log, offers)
     IN /\ store' = out.store
        /\ offers' = out.offers
        /\ log' = out.log
  /\ pc' = [pc EXCEPT ![r] = "doneBg"]
  /\ UNCHANGED <<protocol, origin, storageOk, handlerThrows,
               now, cached, res, json, rtVars, appVars>>

\* Lines 121, 147-150: res.json() rejected.
BgJsonReject(r) ==
  /\ pc[r] = "bgJson"
  /\ err' = [err EXCEPT ![r] = "parse"]
  /\ LET out == RefreshFailed(store, log, offers)
     IN /\ store' = out.store
        /\ offers' = out.offers
        /\ log' = out.log
  /\ pc' = [pc EXCEPT ![r] = "doneBg"]
  /\ UNCHANGED <<protocol, origin, storageOk, handlerThrows,
               now, cached, res, json, rtVars, appVars>>

\* -------------------------------------------------------------------- clock
\* Time passes while a request is in flight.
Tick ==
  /\ now + Hour <= StartNow + MaxTicks * Hour
  /\ now' = now + Hour
  /\ UNCHANGED <<protocol, origin, storageOk, handlerThrows,
               store, offers, log, pc, cached,
               res, json, err,
               rtVars, appVars>>

Next ==
  \/ \E r \in Runs : Offline(r)
  \/ \E r \in Runs : ServeFreshCache(r)
  \/ \E r \in Runs : BlockingFetch(r)
  \/ \E r \in Runs : BlockingHeaders(r)
  \/ \E r \in Runs : BlockingJson(r)
  \/ \E r \in Runs : Blocking304(r)
  \/ \E r \in Runs : BlockingBadStatus(r)
  \/ \E r \in Runs : BlockingReject(r)
  \/ \E r \in Runs : BlockingJsonReject(r)
  \/ \E r \in Runs : BgHeaders(r)
  \/ \E r \in Runs : BgJson(r)
  \/ \E r \in Runs : Bg304(r)
  \/ \E r \in Runs : BgBadStatus(r)
  \/ \E r \in Runs : BgReject(r)
  \/ \E r \in Runs : BgJsonReject(r)
  \/ Tick

Spec == Init /\ [][Next]_vars

\* ----------------------------------------------------------------- fairness
\* What the code's scheduling guarantees.  The synchronous part of loadOffers
\* runs to its first await once invoked.
StartRun(r) == Offline(r) \/ ServeFreshCache(r) \/ BlockingFetch(r)

\* timeoutPromise, lines 99-104 and 113: the promise awaited at lines 119 and
\* 183 settles within FETCH_TIMEOUT, with the response headers or a rejection.
FetchSettles(r) ==
  \/ BlockingHeaders(r) \/ Blocking304(r) \/ BlockingBadStatus(r) \/ BlockingReject(r)
  \/ BgHeaders(r) \/ Bg304(r) \/ BgBadStatus(r) \/ BgReject(r)

\* Nothing bounds the await of res.json() (lines 121, 185): the timer was
\* cleared when fetch resolved, so BlockingJson, BlockingJsonReject, BgJson and
\* BgJsonReject carry no fairness.
SpecLive ==
  /\ Init
  /\ [][Next]_vars
  /\ \A r \in Runs : WF_vars(StartRun(r)) /\ WF_vars(FetchSettles(r))

\* ------------------------------------------------------- overlapping runs
\* Every run is under way at once: loadOffers invoked again before the earlier
\* invocation settled (the script included twice, or a second tab on the same
\* localStorage); nothing in the file serialises them.
OverlapOrigin == Origin({JObj(<<"a">>), JObj(<<"a", "b">>)}, {"v2"}, {Null}, {500})
OverlapItems ==
  { NoItem,
    Serialize(CachePayload("v1", Null, JObj(<<"a">>), StartNow - Hour, StartNow)),
    Serialize(CachePayload("v1", Null, JObj(<<"a">>), StartNow - TTL_MS, StartNow)) }

InitOverlap ==
  /\ protocol \in {"file:", "http:"}
  /\ origin = OverlapOrigin
  /\ storageOk = TRUE
  /\ handlerThrows = FALSE
  /\ now = StartNow
  /\ store \in OverlapItems
  /\ offers = JUndefined
  /\ log = <<>>
  /\ pc = [r \in Runs |-> "start"]
  /\ cached = [r \in Runs |-> NullRecord]
  /\ res = [r \in Runs |-> NoResponse]
  /\ json = [r \in Runs |-> JUndefined]
  /\ err = [r \in Runs |-> "none"]
  /\ written = NullRecord
  /\ readBack = NullRecord
  /\ history = <<>>
  /\ UiIdle
  /\ ThemeIdle

SpecOverlap == InitOverlap /\ [][Next]_vars

\* ------------------------------------------------- a malformed stored value
\* Values under CACHE_KEY that are no well-formed cache record: a text that
\* JSON.parse rejects, and objects that parse but have no data property or
\* data: null (left by another version of the page, or edited by hand).
MalformedItems ==
  { [raw |-> "garbage", etag |-> Undef, lastModified |-> Undef, timestamp |-> 0,
     data |-> <<>>] }
  \cup { [raw |-> "json", etag |-> e, lastModified |-> Null,
          timestamp |-> StartNow - a, data |-> d] :
            e \in {Null, "v1"}, a \in Ages, d \in {<<>>, <<"null">>} }

InitMalformed ==
  /\ protocol \in {"file:", "http:"}
  /\ origin = AnyOrigin
  /\ storageOk = TRUE
  /\ handlerThrows = FALSE
  /\ now = StartNow
  /\ store \in MalformedItems
  /\ offers = JUndefined
  /\ log = <<>>
  /\ pc = [r \in Runs |-> IF r = 1 THEN "start" ELSE "off"]
  /\ cached = [r \in Runs |-> NullRecord]
  /\ res = [r \in Runs |-> NoResponse]
  /\ json = [r \in Runs |-> JUndefined]
  /\ err = [r \in Runs |-> "none"]
  /\ written = NullRecord
  /\ readBack = NullRecord
  /\ history = <<>>
  /\ UiIdle
  /\ ThemeIdle

SpecMalformed == InitMalformed /\ [][Next]_vars

\* --------------------------------------------------------- a failing store
\* localStorage.setItem throws on every call: the quota is exhausted, or the
\* storage is disabled for writing.
InitFailingStore ==
  /\ protocol \in {"file:", "http:"}
  /\ origin = AnyOrigin
  /\ storageOk = FALSE
  /\ handlerThrows = FALSE
  /\ now = StartNow
  /\ store \in WrittenItems \cup {NoItem}
  /\ offers = JUndefined
  /\ log = <<>>
  /\ pc = [r \in Runs |-> IF r = 1 THEN "start" ELSE "off"]
  /\ cached = [r \in Runs |-> NullRecord]
  /\ res = [r \in Runs |-> NoResponse]
  /\ json = [r \in Runs |-> JUndefined]
  /\ err = [r \in Runs |-> "none"]
  /\ written = NullRecord
  /\ readBack = NullRecord
  /\ history = <<>>
  /\ UiIdle
  /\ ThemeIdle

SpecFailingStore == InitFailingStore /\ [][Next]_vars

\* Every dispatchEvent raises: a consumer's handler that throws, on an engine
\* that lets the exception through.
InitThrowing ==
  /\ protocol \in {"file:", "http:"}
  /\ origin = AnyOrigin
  /\ storageOk = TRUE
  /\ handlerThrows = TRUE
  /\ now = StartNow
  /\ store \in WrittenItems \cup {NoItem}
  /\ offers = JUndefined
  /\ log = <<>>
  /\ cached = [r \in Runs |-> NullRecord]
  /\ res = [r \in Runs |-> NoResponse]
  /\ json = [r \in Runs |-> JUndefined]
  /\ err = [r \in Runs |-> "none"]
  /\ written = NullRecord
  /\ readBack = NullRecord
  /\ history = <<>>
  /\ UiIdle
  /\ ThemeIdle
  /\ pc = [r \in Runs |-> IF r = 1 THEN "start" ELSE "off"]

SpecThrowing == InitThrowing /\ [][Next]_vars

\* ------------------------------------------------ no cached payload to hold
\* The store is empty, or holds a value with no usable data.
InitNoPayload ==
  /\ protocol \in {"file:", "http:"}
  /\ origin = AnyOrigin
  /\ storageOk = TRUE
  /\ handlerThrows = FALSE
  /\ now = StartNow
  /\ store \in MalformedItems \cup {NoItem}
  /\ offers = JUndefined
  /\ log = <<>>
  /\ pc = [r \in Runs |-> IF r = 1 THEN "start" ELSE "off"]
  /\ cached = [r \in Runs |-> NullRecord]
  /\ res = [r \in Runs |-> NoResponse]
  /\ json = [r \in Runs |-> JUndefined]
  /\ err = [r \in Runs |-> "none"]
  /\ written = NullRecord
  /\ readBack = NullRecord
  /\ history = <<>>
  /\ UiIdle
  /\ ThemeIdle

SpecNoPayload == InitNoPayload /\ [][Next]_vars

\* ----------------------------------- writeCache then readCache, on their own
\* The objects a caller can hand to writeCache: validators null, empty or set,
\* a timestamp (0 is falsy in JS), and any parsed body as data.
RecordArgs ==
  { Record(e, lm, ts, d) :
      e \in {Null, "", "v1"}, lm \in {Null, "", "Mon"},
      ts \in {0, StartNow - Hour, StartNow}, d \in Bodies }

InitRoundTrip ==
  /\ protocol = "http:"
  /\ origin = AnyOrigin
  /\ storageOk = TRUE
  /\ handlerThrows = FALSE
  /\ now = StartNow
  /\ store = NoItem
  /\ offers = JUndefined
  /\ log = <<>>
  /\ pc = [r \in Runs |-> IF r = 1 THEN "toWrite" ELSE "off"]
  /\ cached = [r \in Runs |-> NullRecord]
  /\ res = [r \in Runs |-> NoResponse]
  /\ json = [r \in Runs |-> JUndefined]
  /\ err = [r \in Runs |-> "none"]
  /\ written \in RecordArgs
  /\ readBack = NullRecord
  /\ history = <<>>
  /\ UiIdle
  /\ ThemeIdle

\* writeCache(written), lines 85-97.
WriteCache(r) ==
  /\ pc[r] = "toWrite"
  /\ store' = writeCache(store, storageOk, written.etag, written.lastModified,
                         written.data, written.timestamp, now)
  /\ pc' = [pc EXCEPT ![r] = "toRead"]
  /\ UNCHANGED <<protocol, origin, storageOk, handlerThrows,
               now, offers, log, cached, res, json, err,
                 rtVars, appVars>>

\* readCache(), lines 74-83.
ReadCache(r) ==
  /\ pc[r] = "toRead"
  /\ readBack' = readCache(store)
  /\ pc' = [pc EXCEPT ![r] = "readDone"]
  /\ UNCHANGED <<protocol, origin, storageOk, handlerThrows,
               now, store, offers, log, cached,
               res, json,
                 err, written, appVars>>

NextRoundTrip ==
  \/ \E r \in Runs : WriteCache(r)
  \/ \E r \in Runs : ReadCache(r)

SpecRoundTrip == InitRoundTrip /\ [][NextRoundTrip]_vars

\* ------------------------------------------------- the history of the links
\* js/link-renderer.js, lines 208-237.  An entry is {link, ts}; links are
\* numbered.
HISTORY_LIMIT == 20

\* arr.filter((v, i, a) => a.findIndex(x => x.link === v.link) === i), line 222.
Unique(arr) ==
  LET F[i \in 0 .. Len(arr)] ==
        IF i = 0 THEN <<>>
        ELSE IF \A j \in 1 .. i - 1 : arr[j].link # arr[i].link
             THEN Append(F[i - 1], arr[i])
             ELSE F[i - 1]
  IN F[Len(arr)]

\* arr.slice(0, n)
Slice(arr, n) == SubSeq(arr, 1, IF Len(arr) < n THEN Len(arr) ELSE n)

\* Mutant: the history is saved without the limit.
saveHistoryItemUnbounded(h, ok, item) ==
  IF ok THEN Unique(<<item>> \o h) ELSE h

\* saveHistoryItem, lines 218-225: the stored array afterwards; a throwing
\* setItem is swallowed.
saveHistoryItem(h, ok, item) ==
  IF ok THEN Slice(Unique(<<item>> \o h), HISTORY_LIMIT) ELSE h

\* removeHistoryLink, lines 227-233.
removeHistoryLink(h, ok, link) ==
  IF ok THEN SelectSeq(h, LAMBDA i : i.link # link) ELSE h

\* The history n earlier saves have left, one an hour, the latest first.
StoredHistory(n) == [i \in 1 .. n |-> [link |-> n + 1 - i, ts |-> StartNow - i * Hour]]

\* The links the user generates or removes now: the oldest and the latest
\* stored ones and two that are new.
HistoryLinks == {1, HISTORY_LIMIT, HISTORY_LIMIT + 1, HISTORY_LIMIT + 2}

InitHistory ==
  /\ protocol = "http:"
  /\ origin = AnyOrigin
  /\ storageOk \in BOOLEAN
  /\ handlerThrows = FALSE
  /\ now = StartNow
  /\ store = NoItem
  /\ offers = JUndefined
  /\ log = <<>>
  /\ pc = [r \in Runs |-> "off"]
  /\ cached = [r \in Runs |-> NullRecord]
  /\ res = [r \in Runs |-> NoResponse]
  /\ json = [r \in Runs |-> JUndefined]
  /\ err = [r \in Runs |-> "none"]
  /\ written = NullRecord
  /\ readBack = NullRecord
  /\ history \in { StoredHistory(n) : n \in {0, HISTORY_LIMIT - 1, HISTORY_LIMIT} }
  /\ UiIdle
  /\ ThemeIdle

\* saveHistoryItem({ link, ts: Date.now() })
SaveHistoryItem ==
  /\ \E link \in HistoryLinks :
       history' = saveHistoryItem(history, storageOk, [link |-> link, ts |-> now])
  /\ UNCHANGED <<loaderVars, storageOk, rtVars, uiVars, themeVars>>

RemoveHistoryLink ==
  /\ \E link \in HistoryLinks :
       history' = removeHistoryLink(history, storageOk, link)
  /\ UNCHANGED <<loaderVars, storageOk, rtVars, uiVars, themeVars>>

\* clearHistory, lines 235-237: removeItem; loadHistory then gives [].
ClearHistory ==
  /\ history' = <<>>
  /\ UNCHANGED <<loaderVars, storageOk, rtVars, uiVars, themeVars>>

NextHistory ==
  \/ SaveHistoryItem
  \/ RemoveHistoryLink
  \/ ClearHistory
  \/ Tick

SpecHistory == InitHistory /\ [][NextHistory]_vars

\* --------------------------------------------- the list of generated links
\* js/link-renderer.js, createRenderer (lines 10-205), driven by the link
\* controller (initLinkController).  A box is a .link-box element:
\* [id, link, latest, deleting]; the first box of boxes is the first child of
\* the container.  0 stands for null where a link or a box is expected.
Box(id, link) == [id |-> id, link |-> link, latest |-> FALSE, deleting |-> FALSE]
BoxIds(bs) == { bs[i].id : i \in 1 .. Len(bs) }

\* What the UI handlers read and change, as one record.
UiState(bs, ps, bd, h, ev) ==
  [boxes |-> bs, pending |-> ps, badge |-> bd, history |-> h, events |-> ev]

\* A CustomEvent dispatched on document, or a call of the onRemove callback:
\* its type, its link, the box it is about and the clear() call it belongs to.
Signal(st, type, link, box, k) ==
  [st EXCEPT !.events = Append(@, [type |-> type, link |-> link, box |-> box, clear |-> k])]

\* Mutant: the badge is left as it is.
updateBadgeSkipped(st) == st

\* updateBadge, lines 75-83.
updateBadge(st) == [st EXCEPT !.badge = Len(st.boxes)]

\* Mutant: the marker of the boxes already shown is left in place.
clearLatestMarkerKeeps(bs) == bs

\* clearLatestMarker, lines 85-87.
clearLatestMarker(bs) == [i \in 1 .. Len(bs) |-> [bs[i] EXCEPT !.latest = FALSE]]

\* add, lines 90-106: the box is prepended and, with markLatest, marked.
add(st, id, link, markLatest) ==
  LET rest == IF markLatest THEN clearLatestMarker(st.boxes) ELSE st.boxes
      box == [Box(id, link) EXCEPT !.latest = markLatest]
  IN updateBadge([st EXCEPT !.boxes = <<box>> \o rest])

\* removeByElement up to the return of the Promise, lines 109-123 and 155-171:
\* box i of the container is marked and its removal waits for animationend or
\* the fallback timer; k is the clear() call it belongs to, 0 for none.
removeByElement(st, i, force, k) ==
  LET box == st.boxes[i]
  IN IF box.deleting /\ ~force
     THEN st
     ELSE [st EXCEPT
             !.boxes[i].deleting = TRUE,
             !.pending = Append(@, [box |-> box.id, link |-> box.link,
                                    wasLatest |-> box.latest, clear |-> k])]

\* Lines 133-142: the first box left becomes the latest, if the box removed
\* was the latest when removeByElement was called.
Reassign(bs, wasLatest) ==
  IF wasLatest /\ Len(bs) > 0
  THEN [i \in 1 .. Len(bs) |-> [bs[i] EXCEPT !.latest = (i = 1)]]
  ELSE bs

\* The onRemove callback of the controller, part_001 lines 847-850.
onRemove(st, ok, link, box, k) ==
  Signal([st EXCEPT !.history = IF link # 0 THEN removeHistoryLink(@, ok, link) ELSE @],
         "link:removed", link, box, k)

\* cleanupAndResolve, lines 125-153, of the removal p.
cleanupAndResolve(st, ok, p) ==
  LET left == SelectSeq(st.boxes, LAMBDA b : b.id # p.box)
      st1 == updateBadge([st EXCEPT !.boxes = left])
      st2 == [st1 EXCEPT !.boxes = Reassign(left, p.wasLatest)]
  IN onRemove(st2, ok, p.link, p.box, p.clear)

\* The removals of clear() call k that have not finished.
Waiting(ps, k) == { i \in 1 .. Len(ps) : ps[i].clear = k }

\* Mutant: the notification of clear() does not wait for the removals.
ClearSettledAtOnce(before, after, k) == Waiting(before, k) # {}

\* Promise.all(promises) of clear(), line 196, settles in this step.
ClearSettled(before, after, k) == Waiting(before, k) # {} /\ Waiting(after, k) = {}

\* clear().then of the renderer, lines 196-199, followed by the rest of the
\* controller's click handler after await renderer.clear(), part_001 lines
\* 1076-1083.
clearDone(st, ok, k) ==
  LET st1 == Signal(updateBadge(st), "cleared", 0, 0, k)
      st2 == onRemove(st1, ok, 0, 0, k)
      st3 == updateBadge([st2 EXCEPT !.history = IF ok THEN <<>> ELSE @])
  IN Signal(st3, "links:cleared", 0, 0, k)

RECURSIVE cleanupEach(_, _, _)
cleanupEach(st, ok, ps) ==
  IF ps = <<>> THEN st ELSE cleanupEach(cleanupAndResolve(st, ok, Head(ps)), ok, Tail(ps))

RECURSIVE clearDoneEach(_, _, _, _)
clearDoneEach(st, ok, before, k) ==
  IF k = 0 THEN st
  ELSE LET st1 == clearDoneEach(st, ok, before, k - 1)
       IN IF ClearSettled(before, st.pending, k) THEN clearDone(st1, ok, k) ELSE st1

\* The removals in the set done of positions of pending run their
\* cleanupAndResolve in the order they were started; afterwards the promise
\* callbacks of every clear() that has no removal left run.
Finish(st, ok, done, nclears) ==
  LET ran == SelectSeq([i \in 1 .. Len(st.pending) |->
                          [p |-> st.pending[i], hit |-> i \in done]],
                       LAMBDA e : e.hit)
      kept == SelectSeq([i \in 1 .. Len(st.pending) |->
                          [p |-> st.pending[i], hit |-> i \in done]],
                        LAMBDA e : ~e.hit)
      st1 == cleanupEach([st EXCEPT !.pending = [i \in 1 .. Len(kept) |-> kept[i].p]],
                         ok, [i \in 1 .. Len(ran) |-> ran[i].p])
  IN clearDoneEach(st1, ok, st.pending, nclears)

\* Bound of the link list: the clicks on "generate" and on "clear all",
\* counted together.
MaxClicks == 3

UiNow == UiState(boxes, pending, badge, history, events)
UiBecomes(st) ==
  \E s \in {st} :
    /\ boxes' = s.boxes
    /\ pending' = s.pending
    /\ badge' = s.badge
    /\ history' = s.history
    /\ events' = s.events

\* The form: a text is the sequence of its characters, "a" a character of
\* [A-Za-z0-9_-], " " white space and "!" any other character.
WordChars == {"a"}
Form(custom, selected) == [custom |-> custom, selected |-> selected]

\* What the user can have typed and picked: nothing, a valid code in either
\* field, a valid code between blanks, a code with a blank inside, a code with
\* a character not allowed in either field, and a bad custom code over a good
\* option.
Forms ==
  { Form(<<>>, <<>>), Form(<<"a">>, <<>>), Form(<<" ", "a", " ">>, <<>>),
    Form(<<"a", " ", "a">>, <<>>), Form(<<"a", "!">>, <<>>), Form(<<>>, <<"a">>),
    Form(<<>>, <<"a", "!">>), Form(<<"a", "!">>, <<"a">>) }

\* String.prototype.trim
RECURSIVE Trim(_)
Trim(t) ==
  IF t = <<>> THEN t
  ELSE IF Head(t) = " " THEN Trim(Tail(t))
  ELSE IF t[Len(t)] = " " THEN Trim(SubSeq(t, 1, Len(t) - 1))
  ELSE t

\* normalizeOfferCode, part_000 lines 4-9.
normalizeOfferCode(raw) ==
  IF raw = <<>>
  THEN [code |-> <<>>, valid |-> FALSE]
  ELSE [code |-> Trim(raw),
        valid |-> Trim(raw) # <<>> /\ \A i \in 1 .. Len(Trim(raw)) : Trim(raw)[i] \in WordChars]

\* buildCampaignLink, part_000 lines 15-22, for one choice of SIM type and
\* activation type: one link per code.  A valid code here is a run of the
\* word character, and its link is told from the others by its length.
buildCampaignLink(code) == Len(code)

\* Lines 1100-1102 of the generate handler: the custom code, if any, wins.
Chosen(f) == IF Trim(f.custom) # <<>> THEN Trim(f.custom) ELSE Trim(f.selected)

\* Mutant: only a missing code is turned down.
RejectedOnlyEmpty(f) == Chosen(f) = <<>>

\* Lines 1104-1120: no code chosen, or a code that is not valid.
Rejected(f) == Chosen(f) = <<>> \/ ~normalizeOfferCode(Chosen(f)).valid

\* The user types into the custom-code input or picks an option.
EditForm(forms) ==
  /\ \E f \in forms : form' = f
  /\ UNCHANGED <<loaderVars, storageOk, rtVars, history, boxes, pending, badge,
                 events, clears, made, themeVars>>

\* The click handler of the generate button, part_001 lines 1099-1138.
Generate ==
  /\ made + Len(clears) < MaxClicks
  /\ IF Rejected(form)
     THEN UNCHANGED <<boxes, pending, badge, history, events, made>>
     ELSE LET link == buildCampaignLink(normalizeOfferCode(Chosen(form)).code)
              saved == [UiNow EXCEPT
                          !.history =
                            saveHistoryItem(@, storageOk, [link |-> link, ts |-> now])]
              shown == add(saved, made + 1, link, TRUE)
          IN /\ UiBecomes(Signal(shown, "link:added", link, made + 1, 0))
             /\ made' = made + 1
  /\ UNCHANGED <<loaderVars, storageOk, rtVars, clears, form, themeVars>>

\* The delete button or the Delete key of a box, part_001 lines 1020-1060.
ClickDelete ==
  /\ \E i \in 1 .. Len(boxes) : UiBecomes(removeByElement(UiNow, i, FALSE, 0))
  /\ UNCHANGED <<loaderVars, storageOk, rtVars, clears, made, form, themeVars>>

RECURSIVE removeEach(_, _, _)
removeEach(st, i, k) ==
  IF i > Len(st.boxes) THEN st ELSE removeEach(removeByElement(st, i, TRUE, k), i + 1, k)

\* clear() of the renderer up to the return of its promise, lines 184-194:
\* with no box it notifies and resolves at once, otherwise it forces the
\* removal of every box.
clear(st, ok, k) ==
  IF st.boxes = <<>>
  THEN onRemove(Signal(updateBadge(st), "cleared", 0, 0, k), ok, 0, 0, k)
  ELSE removeEach(st, 1, k)

\* The click handler of "clear all", part_001 lines 1068-1093, up to
\* await renderer.clear().  clears records, for every click, the boxes found
\* and the number of links generated so far.
ClickClear ==
  /\ made + Len(clears) < MaxClicks
  /\ clears' = Append(clears, [items |-> BoxIds(boxes), made |-> made])
  /\ IF boxes = <<>>
     THEN LET st1 == [UiNow EXCEPT !.history = IF storageOk THEN <<>> ELSE @, !.badge = 0]
          IN UiBecomes(Signal(st1, "links:cleared", 0, 0, 0))
     ELSE UiBecomes(clear(UiNow, storageOk, Len(clears) + 1))
  /\ UNCHANGED <<loaderVars, storageOk, rtVars, made, form, themeVars>>

\* animationend on a box of the container, lines 155-160: every listener
\* still attached to the box runs.
AnimationEnd ==
  /\ \E id \in { pending[i].box : i \in 1 .. Len(pending) } \cap BoxIds(boxes) :
       UiBecomes(Finish(UiNow, storageOk,
                        { i \in 1 .. Len(pending) : pending[i].box = id }, Len(clears)))
  /\ UNCHANGED <<loaderVars, storageOk, rtVars, clears, made, form, themeVars>>

\* Mutant: no fallback timer is set.
FallbackDueNever(ps) == FALSE

\* The fallback timer of lines 163-170 of the oldest removal is due.
FallbackDue(ps) == ps # <<>>

FallbackTimer ==
  /\ FallbackDue(pending)
  /\ UiBecomes(Finish(UiNow, storageOk, {1}, Len(clears)))
  /\ UNCHANGED <<loaderVars, storageOk, rtVars, clears, made, form, themeVars>>

InitLinks ==
  /\ protocol = "http:"
  /\ origin = AnyOrigin
  /\ storageOk = TRUE
  /\ handlerThrows = FALSE
  /\ now = StartNow
  /\ store = NoItem
  /\ offers = JUndefined
  /\ log = <<>>
  /\ pc = [r \in Runs |-> "off"]
  /\ cached = [r \in Runs |-> NullRecord]
  /\ res = [r \in Runs |-> NoResponse]
  /\ json = [r \in Runs |-> JUndefined]
  /\ err = [r \in Runs |-> "none"]
  /\ written = NullRecord
  /\ readBack = NullRecord
  /\ history = <<>>
  /\ UiIdle
  /\ ThemeIdle

\* The user chooses among valid codes.
ChooseCode == EditForm({Form(<<"a">>, <<>>), Form(<<"a", "a">>, <<>>)})

NextLinks ==
  \/ ChooseCode
  \/ Generate
  \/ ClickDelete
  \/ ClickClear
  \/ AnimationEnd
  \/ FallbackTimer

SpecLinks == InitLinks /\ [][NextLinks]_vars

\* The timer of setTimeout fires once its delay has passed.
SpecLinksLive == SpecLinks /\ WF_vars(FallbackTimer)

\* The same list, with anything typed into the form.
TypeCode == EditForm(Forms)

NextGenerate ==
  \/ TypeCode
  \/ Generate
  \/ ClickDelete
  \/ ClickClear
  \/ AnimationEnd
  \/ FallbackTimer

SpecGenerate == InitLinks /\ [][NextGenerate]_vars

\* ------------------------------------------------------------ theme toggle
\* js/theme-toggle.js.  themeStored is localStorage['cv-theme'] ("none" when
\* nothing is stored), systemDark the media query (prefers-color-scheme: dark),
\* pageDark the class 'dark' on <html> and <body>.  themeFile is the <link>
\* element with id cv-theme-file: its theme, whether it is loading or loaded,
\* and the themes of the elements taken out of the document while loading.
\* explicit records that the user has used the toggle, now or on an earlier
\* visit.
Themes == {"dark", "light"}
ThemeOf(dark) == IF dark THEN "dark" ELSE "light"

\* getStoredTheme, lines 85-92.
getStoredTheme(stored, sysDark) == IF stored \in Themes THEN stored ELSE ThemeOf(sysDark)

\* loadThemeFile up to the return of its promise, lines 22-46.
loadThemeFile(file, theme) ==
  [theme |-> theme, state |-> "loading",
   detached |-> file.detached \cup (IF file.state = "loading" THEN {file.theme} ELSE {})]

\* removeThemeFile, lines 49-54.
removeThemeFile(file) == [file EXCEPT !.theme = "none", !.state = "none"]

\* applyTheme: persist choice, line 72.
ThemePersisted(stored, ok, theme) == IF ok THEN theme ELSE stored

\* applyTheme up to await loadThemeFile, lines 57-76.
applyTheme(theme) ==
  /\ pageDark' = (theme = "dark")
  /\ themeStored' = ThemePersisted(themeStored, storageOk, theme)
  /\ themeFile' = loadThemeFile(themeFile, theme)

\* The callback of onDOMReady, lines 120-140.
DomReady ==
  /\ themePc = "loading"
  /\ themePc' = "ready"
  /\ applyTheme(getStoredTheme(themeStored, systemDark))
  /\ UNCHANGED <<loaderVars, storageOk, rtVars, history, uiVars, systemDark, explicit>>

\* toggleTheme, lines 113-117, from the click or keydown listener of the
\* button, lines 149-160.
Toggle ==
  /\ themePc = "ready"
  /\ applyTheme(IF pageDark THEN "light" ELSE "dark")
  /\ explicit' = TRUE
  /\ UNCHANGED <<loaderVars, storageOk, rtVars, history, uiVars, systemDark, themePc>>

\* The system preference changes; onChange, lines 99-107, runs once
\* watchSystemThemeChanges has registered it.
SystemChange ==
  /\ systemDark' = ~systemDark
  /\ IF themePc = "ready" /\ themeStored \notin Themes
     THEN applyTheme(ThemeOf(systemDark'))
     ELSE UNCHANGED <<pageDark, themeStored, themeFile>>
  /\ UNCHANGED <<loaderVars, storageOk, rtVars, history, uiVars, explicit, themePc>>

\* link.onload, line 36: applyTheme resumes with ok = true.
ThemeFileLoaded ==
  /\ themeFile.state = "loading"
  /\ themeFile' = [themeFile EXCEPT !.state = "loaded"]
  /\ UNCHANGED <<loaderVars, storageOk, rtVars, history, uiVars,
                 themeStored, systemDark, pageDark, explicit, themePc>>

\* link.onerror, lines 37-40: the element removes itself and applyTheme
\* resumes with ok = false, lines 77-80.
ThemeFileMissing ==
  /\ themeFile.state = "loading"
  /\ themeFile' = removeThemeFile(themeFile)
  /\ UNCHANGED <<loaderVars, storageOk, rtVars, history, uiVars,
                 themeStored, systemDark, pageDark, explicit, themePc>>

\* onload or onerror of an element that a later applyTheme took out of the
\* document: with ok = false applyTheme removes the element that is there now.
DetachedFileSettles ==
  /\ \E theme \in themeFile.detached, ok \in BOOLEAN :
       LET rest == [themeFile EXCEPT !.detached = @ \ {theme}]
       IN themeFile' = IF ok THEN rest ELSE removeThemeFile(rest)
  /\ UNCHANGED <<loaderVars, storageOk, rtVars, history, uiVars,
                 themeStored, systemDark, pageDark, explicit, themePc>>

\* A page load: a first visit, or a visit with the theme an earlier visit
\* stored; localStorage may refuse writes.
InitTheme ==
  /\ protocol = "http:"
  /\ origin = AnyOrigin
  /\ storageOk \in BOOLEAN
  /\ handlerThrows = FALSE
  /\ now = StartNow
  /\ store = NoItem
  /\ offers = JUndefined
  /\ log = <<>>
  /\ pc = [r \in Runs |-> "off"]
  /\ cached = [r \in Runs |-> NullRecord]
  /\ res = [r \in Runs |-> NoResponse]
  /\ json = [r \in Runs |-> JUndefined]
  /\ err = [r \in Runs |-> "none"]
  /\ written = NullRecord
  /\ readBack = NullRecord
  /\ history = <<>>
  /\ UiIdle
  /\ themeStored \in Themes \cup {"none"}
  /\ systemDark \in BOOLEAN
  /\ pageDark = FALSE
  /\ explicit \in BOOLEAN
  /\ explicit => themeStored \in Themes
  /\ themePc = "loading"
  /\ themeFile = NoThemeFile

NextTheme ==
  \/ DomReady
  \/ Toggle
  \/ SystemChange
  \/ ThemeFileLoaded
  \/ ThemeFileMissing
  \/ DetachedFileSettles

SpecTheme == InitTheme /\ [][NextTheme]_vars

\* ============================================================== properties
\* The positions in the log of the effects of one kind of run r.
Idx(type, r) == { i \in DOMAIN log : log[i].type = type /\ log[i].run = r }
Count(type, r) == Cardinality(Idx(type, r))
IdxNext(type, r) == { i \in DOMAIN log' : log'[i].type = type /\ log'[i].run = r }

\* Deep (structural) equality of two JSON values: key order is irrelevant.
StructEq(v, w) == v.kind = w.kind /\ Range(v.keys) = Range(w.keys)

\* The outcome run r obtained.
Failed(r) == err[r] # "none" \/ res[r].status \in BadStatuses
Fresh(r) == res[r].status = 200 /\ err[r] = "none" /\ pc[r] \in Settled
NotModified(r) == res[r].status = 304

\* The validator a response header stands for: an empty header is none.
HeaderValidator(h) == IF h = "" THEN Null ELSE h

\* C1: in every run of loadOffers, on every path and for every fetch outcome,
\* 'offers:loaded' is dispatched exactly once: never twice, none before the
\* run started, and once the run has served (the offline path, the
\* fresh-cache path) or has handled its outcome (the blocking path) exactly one.
C1_ReadyExactlyOnce ==
  \A r \in Runs :
    /\ Count("loaded", r) <= 1
    /\ pc[r] \in {"off", "start", "fetch", "json"} => Count("loaded", r) = 0
    /\ pc[r] \in Settled \cup {"bgFetch", "bgJson"} => Count("loaded", r) = 1

\* A blocking fetch timed out and the run still notified once.
C1_Witness ==
  \E r \in Runs :
    pc[r] = "doneBlocking" /\ err[r] = "timeout" /\ Count("loaded", r) = 1

\* C2: within one run 'offers:updated' is dispatched at most once, and
\* every 'offers:updated' comes after the 'offers:loaded' of the same run.
C2_ChangedAfterReady ==
  \A r \in Runs :
    /\ Count("updated", r) <= 1
    /\ \A i \in Idx("updated", r) : \E j \in Idx("loaded", r) : j < i

\* A background refresh found new content and announced it.
C2_Witness ==
  \E r \in Runs : pc[r] = "doneBg" /\ Count("updated", r) = 1

\* C3, the step: loadOffers on a networked page whose stored record is
\* younger than the TTL serves the record's payload, dispatches
\* 'offers:loaded' with that payload in place, and only then issues the
\* (background) request; no request of this run precedes it.
C3_Step ==
  \A r \in Runs :
    LET rec == readCache(store)
        n == Len(log)
    IN (/\ pc[r] = "start"
        /\ pc'[r] # "start"
        /\ protocol = "http:"
        /\ rec.kind = "object"
        /\ now - rec.timestamp < 24 * Hour)
       => /\ offers' = rec.data
          /\ Idx("fetch", r) = {}
          /\ Len(log') = n + 2
          /\ log'[n + 1].type = "loaded" /\ log'[n + 1].run = r
          /\ log'[n + 1].offers = rec.data
          /\ log'[n + 2].type = "fetch" /\ log'[n + 2].run = r
          /\ pc'[r] = "bgFetch"

\* C3, afterwards: while the refresh is pending or done, the run's
\* 'offers:loaded' (with the cached payload served) precedes its request.
C3_Order ==
  \A r \in Runs :
    pc[r] \in {"bgFetch", "bgJson", "doneBg"} =>
      \E i \in Idx("loaded", r) :
        /\ log[i].offers = cached[r].data
        /\ \A j \in Idx("fetch", r) : i < j

\* C3 (P1, TTL short-circuit): both of the above.
C3_TTLShortCircuit == [][C3_Step]_vars /\ []C3_Order

\* A fresh record was served and its background request is in flight.
C3_Witness ==
  \E r \in Runs :
    /\ pc[r] = "bgFetch"
    /\ Count("loaded", r) = 1 /\ Count("fetch", r) = 1
    /\ offers = cached[r].data
    /\ now - cached[r].timestamp = 24 * Hour - 1

\* C4, the step: loadOffers on a networked page with no stored record, or one
\* whose age is the TTL or more, issues the request and dispatches nothing.
C4_Step ==
  \A r \in Runs :
    LET rec == readCache(store)
        n == Len(log)
    IN (/\ pc[r] = "start"
        /\ pc'[r] # "start"
        /\ protocol = "http:"
        /\ rec.kind = "null" \/ now - rec.timestamp >= 24 * Hour)
       => /\ pc'[r] = "fetch"
          /\ Len(log') = n + 1
          /\ log'[n + 1].type = "fetch" /\ log'[n + 1].run = r

\* C4, afterwards: while the blocking fetch is pending no 'offers:loaded'
\* has been dispatched; once it is dispatched the request came first and its
\* outcome (a response or an error) has been obtained.
C4_Order ==
  \A r \in Runs :
    /\ pc[r] \in {"fetch", "json"} =>
         Count("loaded", r) = 0 /\ Count("fetch", r) = 1
    /\ pc[r] = "doneBlocking" =>
         /\ res[r].status # 0 \/ err[r] # "none"
         /\ \E i \in Idx("fetch", r) : \E j \in Idx("loaded", r) : i < j

\* C4 (P2, stale triggers fetch): both of the above.
C4_StaleTriggersFetch == [][C4_Step]_vars /\ []C4_Order

\* A record aged exactly the TTL led to a blocking fetch, now settled.
C4_Witness ==
  \E r \in Runs :
    /\ pc[r] = "doneBlocking"
    /\ cached[r].kind = "object"
    /\ StartNow - cached[r].timestamp = 24 * Hour
    /\ Count("loaded", r) = 1

\* C5, the step that handles a 304 for a run that read a record: the record
\* in the store afterwards has the payload and the validators of the record
\* read and fetchedAt = now, the served catalog is the record's payload, and
\* the run has dispatched no 'offers:updated'.
C5_Step ==
  \A r \in Runs :
    (/\ pc[r] \in {"fetch", "bgFetch"}
     /\ res'[r].status = 304
     /\ cached[r].kind = "object")
    => LET rec == readCache(store')
       IN /\ rec.kind = "object"
          /\ rec.data = cached[r].data
          /\ rec.etag = cached[r].etag
          /\ rec.lastModified = cached[r].lastModified
          /\ rec.timestamp = now /\ now' = now
          /\ offers' = cached[r].data
          /\ IdxNext("updated", r) = {}

\* C5 (P3, NotModified keeps payload, refreshes freshness).
C5_NotModifiedRefreshes == [][C5_Step]_vars

\* A stale record was revalidated by a 304 after the clock had moved on.
C5_Witness ==
  \E r \in Runs :
    /\ pc[r] = "doneBlocking"
    /\ res[r].status = 304
    /\ cached[r].kind = "object"
    /\ readCache(store).timestamp = StartNow + Hour
    /\ readCache(store).data = cached[r].data

\* The step in which run r handles a Fresh outcome: the body parsed.
FreshStep(r) ==
  /\ pc[r] \in {"json", "bgJson"}
  /\ pc'[r] \in Settled
  /\ err'[r] = "none"

\* The record a Fresh outcome persists: the validators of the response,
\* fetchedAt = now, and the body as payload (the empty mapping for a null body).
FreshPersisted(r) ==
  LET rec == readCache(store')
  IN /\ rec.kind = "object"
     /\ rec.etag = HeaderValidator(res[r].etag)
     /\ rec.lastModified = HeaderValidator(res[r].lastModified)
     /\ rec.timestamp = now
     /\ rec.data = IF Truthy(json'[r]) THEN json'[r] ELSE EmptyObj

\* C6 as stated (P4): for any record read, in the blocking path and in the
\* refresh alike, a Fresh outcome whose payload differs structurally from the
\* record's payload dispatches 'offers:updated', makes the new payload the
\* served catalog and persists the new record.
C6_Original_Step ==
  \A r \in Runs :
    (/\ FreshStep(r)
     /\ cached[r].kind = "object"
     /\ ~StructEq(json'[r], cached[r].data))
    => /\ IdxNext("updated", r) # {}
       /\ offers' = json'[r]
       /\ FreshPersisted(r)

C6_Original == [][C6_Original_Step]_vars

\* C6 amended: in the background refresh such an outcome dispatches
\* 'offers:updated' with the new payload in place; in the blocking path it
\* dispatches no 'offers:updated' (the run's 'offers:loaded' announces the new
\* payload); in both the new payload is served and the new record persisted.
C6_Amended_Step ==
  \A r \in Runs :
    LET n == Len(log')
    IN (/\ FreshStep(r)
        /\ cached[r].kind = "object"
        /\ ~StructEq(json'[r], cached[r].data))
       => /\ offers' = json'[r]
          /\ FreshPersisted(r)
          /\ pc[r] = "bgJson" =>
               /\ Cardinality(IdxNext("updated", r)) = 1
               /\ log'[n].type = "updated" /\ log'[n].run = r
               /\ log'[n].offers = json'[r]
          /\ pc[r] = "json" =>
               /\ IdxNext("updated", r) = {}
               /\ log'[n].type = "loaded" /\ log'[n].run = r
               /\ log'[n].offers = json'[r]

C6_ContentChange == [][C6_Amended_Step]_vars

\* A refresh fetched a structurally different payload and announced it.
C6_Witness ==
  \E r \in Runs :
    /\ pc[r] = "doneBg" /\ Fresh(r)
    /\ ~StructEq(json[r], cached[r].data)
    /\ json[r].kind = "object"
    /\ Count("updated", r) = 1
    /\ offers = json[r]
    /\ readCache(store).data = json[r]

\* C7 (P5, no-op content): a Fresh outcome whose payload serializes as the
\* payload served before it (what window.CoolVoceOffers holds, or the payload
\* of the record read) dispatches no 'offers:updated', leaves the served value
\* as it was, and rewrites the record with fetchedAt = now and the validators
\* of the response.
C7_Step ==
  \A r \in Runs :
    \A prev \in {offers} \cup
                (IF cached[r].kind = "object" THEN {cached[r].data} ELSE {}) :
      (FreshStep(r) /\ Stringify(json'[r]) = Stringify(prev))
      => /\ IdxNext("updated", r) = {}
         /\ Stringify(offers') = Stringify(prev)
         /\ FreshPersisted(r)

C7_NoOpContent == [][C7_Step]_vars

\* A refresh fetched the payload already served, under another validator tag.
C7_Witness ==
  \E r \in Runs :
    /\ pc[r] = "doneBg" /\ Fresh(r)
    /\ json[r] = cached[r].data
    /\ res[r].etag = "v2"
    /\ readCache(store).etag = "v2"
    /\ readCache(store).timestamp > cached[r].timestamp
    /\ Count("updated", r) = 0

\* C8 (P6, offline fallback): under file: no run issues a request or writes
\* the store; a run only ever stands at its start or at the end of the offline
\* path, and there the served catalog is the payload of the stored record, or
\* the empty mapping without a record, the store still holds what was read,
\* and 'offers:loaded' has been dispatched.
C8_OfflineFallback ==
  protocol = "file:" =>
    \A r \in Runs :
      /\ Count("fetch", r) = 0 /\ Count("write", r) = 0
      /\ pc[r] \in {"off", "start", "doneOffline"}
      /\ pc[r] = "doneOffline" =>
           /\ offers = IF cached[r].kind = "object" THEN cached[r].data ELSE EmptyObj
           /\ store = IF cached[r].kind = "object" THEN Serialize(cached[r]) ELSE NoItem
           /\ Count("loaded", r) = 1

\* An offline run served the payload of the stored record.
C8_Witness ==
  \E r \in Runs :
    /\ protocol = "file:" /\ pc[r] = "doneOffline"
    /\ cached[r].kind = "object"
    /\ offers = cached[r].data /\ offers # EmptyObj

\* C9 (P7, failure fallback): after a Failed outcome (network error, timeout,
\* a status other than 200 and 304, a body that does not parse) the served
\* catalog is the payload of the record read, or the empty mapping when there
\* was none, and the run has dispatched 'offers:loaded' exactly once.
C9_FailureFallback ==
  \A r \in Runs :
    (pc[r] \in Settled /\ Failed(r)) =>
      /\ offers = IF cached[r].kind = "object" THEN cached[r].data ELSE EmptyObj
      /\ Count("loaded", r) = 1

\* A blocking fetch failed on the network and the stale payload is served.
C9_Witness ==
  \E r \in Runs :
    /\ pc[r] = "doneBlocking" /\ err[r] = "network"
    /\ cached[r].kind = "object"
    /\ offers = cached[r].data /\ offers # EmptyObj

\* C10: a Failed outcome writes nothing: once it is handled the store holds
\* the item the run read before it started the fetch.
C10_FailedWritesNothing ==
  \A r \in Runs :
    (pc[r] \in Settled /\ Failed(r)) =>
      /\ Count("write", r) = 0
      /\ store = IF cached[r].kind = "object" THEN Serialize(cached[r]) ELSE NoItem

\* A refresh got a body that does not parse; the record is as it was read.
C10_Witness ==
  \E r \in Runs :
    /\ pc[r] = "doneBg" /\ err[r] = "parse"
    /\ store = Serialize(cached[r])


Writes(r) == Idx("write", r)

\* C12: across all writes, also those of overlapping runs and of refreshes
\* that settle late, the timestamp (fetchedAt) of the record in the store
\* never decreases.
C12_Step ==
  LET before == readCache(store)
      after == readCache(store')
  IN /\ before.kind = "object" => after.kind = "object"
     /\ (before.kind = "object" /\ after.kind = "object")
          => after.timestamp >= before.timestamp

C12_FetchedAtMonotonic == [][C12_Step]_vars

\* Two overlapping runs read the same record and both wrote, the second an
\* hour after the first.
C12_Witness ==
  /\ cached[1] = cached[2]
  /\ cached[1].kind = "object"
  /\ \E i \in Writes(1), j \in Writes(2) :
       /\ i < j
       /\ log[j].arg.timestamp = log[i].arg.timestamp + Hour
       /\ readCache(store) = log[j].arg

\* ------------------------------------------------------------------- C13
\* C13: every record written carries data (the payload) that is a mapping,
\* never null or missing, whatever body was fetched and whatever record was
\* read: no write leaves a record without a mapping in the store.
C13_PayloadIsMapping ==
  /\ readCache(store).kind = "object" => readCache(store).data.kind = "object"
  /\ \A i \in 1 .. Len(log) :
       log[i].type = "write" => log[i].arg.data.kind = "object"

\* ------------------------------------------------------------------- C14
\* C14: the write of a NotModified (304) outcome changes only the timestamp
\* (fetchedAt) of the record in the store: data and validators right after the
\* write are those that were in the store right before it, also when another
\* run wrote the store between this run's readCache and its write.
C14_Step ==
  \A r \in Runs :
    (/\ pc[r] \in {"fetch", "bgFetch"}
     /\ res'[r].status = 304
     /\ IdxNext("write", r) # Idx("write", r))
    => LET before == readCache(store)
           after == readCache(store')
       IN /\ before.kind = "object"
          /\ after.kind = "object"
          /\ after.data = before.data
          /\ after.etag = before.etag
          /\ after.lastModified = before.lastModified

C14_NotModifiedTouchesOnlyFetchedAt == [][C14_Step]_vars

\* ------------------------------------------------------------------- C15
\* C15: 'offers:updated' is dispatched only when the body just fetched differs
\* from the catalog that was being served when the handler ran, also across
\* overlapping runs: two runs that receive the same new body do not both
\* announce it.
C15_Step ==
  \A r \in Runs :
    IdxNext("updated", r) # Idx("updated", r)
      => Stringify(json'[r]) # Stringify(offers)

C15_ChangedOnlyIfServedDiffers == [][C15_Step]_vars

\* ------------------------------------------------------------------- C16
\* C16: a stored value that is no well-formed cache record (a text that does
\* not parse, an object without data) is treated as an absent record: with
\* http(s) the run takes the path of an empty store, a blocking fetch whose
\* outcome is handled before 'offers:loaded'.
C16_MalformedIsAbsent ==
  \A r \in Runs :
    protocol # "file:" =>
      /\ pc[r] \in {"off", "start", "fetch", "json", "doneBlocking"}
      /\ \A i \in Idx("loaded", r) :
           /\ pc[r] = "doneBlocking"
           /\ \E j \in Idx("fetch", r) : j < i

\* ------------------------------------------------------------------- C17
\* C17: every run of loadOffers over http(s) eventually dispatches
\* 'offers:loaded', also when the response headers or the response body never
\* arrive.
C17_EventuallyReady ==
  \A r \in Runs :
    (pc[r] = "start" /\ protocol # "file:") ~> (Count("loaded", r) = 1)

\* ------------------------------------------------------------------- C18
\* C18: a failing write to the store neither blocks nor aborts the run: the
\* step that handles a Fresh outcome while setItem throws settles the run,
\* serves the fetched body, leaves exactly one 'offers:loaded' of the run in
\* the log and leaves the stored record as it was.
C18_Step ==
  \A r \in Runs :
    (FreshStep(r) /\ ~storageOk)
    => /\ Stringify(offers') = Stringify(json'[r])
       /\ Cardinality(IdxNext("loaded", r)) = 1
       /\ store' = store
       /\ IdxNext("write", r) = {}

C18_FailedWriteHarmless == [][C18_Step]_vars

\* A new catalog was fetched over a stored record while the store refused
\* every write.
C18_Witness ==
  /\ ~storageOk
  /\ pc[1] = "doneBlocking"
  /\ res[1].status = 200 /\ err[1] = "none"
  /\ json[1] = JObj(<<"a", "b">>)
  /\ offers = json[1]
  /\ cached[1].kind = "object"
  /\ store = Serialize(cached[1])
  /\ cached[1].data = JObj(<<"a">>)
  /\ Count("loaded", 1) = 1

\* ------------------------------------------------------------------- C19
\* C19 (initial population): with http(s) and an empty store, the step that
\* handles Fresh(payload, tag, ts), payload a mapping, makes payload the
\* served catalog, persists {tag, ts, fetchedAt = now, payload}, and leaves
\* exactly one 'offers:loaded' of the run in the log; the run never dispatches
\* 'offers:updated'.
C19_Step ==
  \A r \in Runs :
    (/\ FreshStep(r)
     /\ store = NoItem
     /\ cached[r].kind = "null"
     /\ json'[r].kind = "object")
    => /\ pc'[r] = "doneBlocking"
       /\ offers' = json'[r]
       /\ readCache(store') =
            Record(HeaderValidator(res[r].etag), HeaderValidator(res[r].lastModified),
                   now, json'[r])
       /\ Cardinality(IdxNext("loaded", r)) = 1
       /\ log'[Len(log')].type = "loaded"
       /\ IdxNext("updated", r) = {}

C19_NoChangedAfterwards ==
  \A r \in Runs :
    (cached[r].kind = "null" /\ pc[r] \in Settled) => Count("updated", r) = 0

C19_InitialPopulation == [][C19_Step]_vars /\ []C19_NoChangedAfterwards

\* The empty store was populated with {v1, Mon, now, {a, b}}.
C19_Witness ==
  /\ protocol = "http:"
  /\ pc[1] = "doneBlocking"
  /\ cached[1].kind = "null"
  /\ res[1] = [status |-> 200, etag |-> "v1", lastModified |-> "Mon"]
  /\ json[1] = JObj(<<"a", "b">>)
  /\ offers = json[1]
  /\ readCache(store) = Record("v1", "Mon", now, json[1])
  /\ Count("loaded", 1) = 1
  /\ Count("updated", 1) = 0

\* ------------------------------------------------------------------- C20
Links(h) == { h[i].link : i \in 1 .. Len(h) }

\* C20: after any sequence of saveHistoryItem and removeHistoryLink the stored
\* history holds at most HISTORY_LIMIT entries, no two of them with the same
\* link, and the most recently saved first: the entries are in the order of
\* their ts, latest first, and an entry that a step adds or stamps anew is
\* the first one afterwards.
C20_Bounded ==
  /\ Len(history) <= HISTORY_LIMIT
  /\ \A i, j \in 1 .. Len(history) : history[i].link = history[j].link => i = j
  /\ \A i, j \in 1 .. Len(history) : i < j => history[i].ts >= history[j].ts

C20_Step ==
  \A i \in 1 .. Len(history') :
    (\/ history'[i].link \notin Links(history)
     \/ \E j \in 1 .. Len(history) :
          history[j].link = history'[i].link /\ history[j].ts # history'[i].ts)
    => i = 1 /\ history'[i].ts = now

C20_HistoryBounded == [][C20_Step]_vars /\ []C20_Bounded

\* A full history took one more link: the new link is first, the oldest gone.
C20_Witness ==
  /\ Len(history) = HISTORY_LIMIT
  /\ history[1] = [link |-> HISTORY_LIMIT + 1, ts |-> StartNow + Hour]
  /\ history[2].link = HISTORY_LIMIT
  /\ 1 \notin Links(history)

\* ------------------------------------------------------------------- C27
\* C27: a 304 answered to a run that read no record, or a record without
\* data, is handled as a failure: the step writes nothing to the store, the
\* served catalog is the empty mapping, the run dispatches no
\* 'offers:updated', and its one 'offers:loaded' is in the log.
C27_Step ==
  \A r \in Runs :
    (/\ pc[r] \in {"fetch", "bgFetch"}
     /\ res'[r].status = 304
     /\ ~HasData(cached[r]))
    => /\ store' = store
       /\ IdxNext("write", r) = {}
       /\ offers' = EmptyObj
       /\ IdxNext("updated", r) = {}
       /\ Cardinality(IdxNext("loaded", r)) = 1
       /\ pc'[r] \in Settled

C27_NotModifiedWithoutRecord == [][C27_Step]_vars

\* An empty store, no validators sent, and still a 304.
C27_Witness ==
  /\ store = NoItem
  /\ pc[1] = "doneBlocking"
  /\ res[1].status = 304
  /\ cached[1].kind = "null"
  /\ offers = EmptyObj
  /\ Count("loaded", 1) = 1

\* ------------------------------------------------------------------- C28
\* The validators and the data of a record, without its timestamp.
Content(rec) == <<rec.etag, rec.lastModified, rec.data>>

\* The contents a step of run r can take from one single source: the record
\* the run read, or the response it has just parsed.
SourcesNext(r) ==
  (IF cached[r].kind = "object" THEN {Content(cached[r])} ELSE {})
  \cup (IF res[r].status = 200
        THEN {<<HeaderValidator(res[r].etag), HeaderValidator(res[r].lastModified),
                IF Truthy(json'[r]) THEN json'[r] ELSE EmptyObj>>}
        ELSE {})

\* C28: writes are whole-record replacements: under any interleaving of
\* overlapping runs and refreshes, every step that changes the stored record
\* leaves validators and data that all come from one source, the record read
\* by the writing run or the one response it parsed, never a mix of the two
\* or of two runs' sources.
C28_Step ==
  store' # store =>
    \E r \in Runs :
      /\ pc'[r] # pc[r]
      /\ readCache(store').kind = "object"
      /\ Content(readCache(store')) \in SourcesNext(r)

C28_WholeRecordWrites == [][C28_Step]_vars

\* Run 2 persisted its response {v2, {a, b}} over the record {v1, {a}} that
\* both runs had read, and run 1 then put that record back whole: nowhere a
\* record with the tag of one and the data of the other.
C28_Witness ==
  /\ cached[1] = cached[2]
  /\ cached[1].kind = "object"
  /\ \E i \in Writes(2), j \in Writes(1) :
       /\ i < j
       /\ Content(log[i].arg) = <<"v2", Null, JObj(<<"a", "b">>)>>
       /\ Content(log[j].arg) = Content(cached[1])
       /\ readCache(store) = log[j].arg

\* ------------------------------------------------------------------- C29
\* C29 (freshness decision): on a networked page a stored record is served
\* without a blocking fetch, 'offers:loaded' first and the request after it,
\* if and only if now - timestamp < TTL_MS; at an age of exactly TTL_MS, or
\* more, the run dispatches nothing and awaits the fetch.
C29_Step ==
  \A r \in Runs :
    LET rec == readCache(store)
        n == Len(log)
        young == now - rec.timestamp < TTL_MS
    IN (/\ pc[r] = "start"
        /\ pc'[r] # "start"
        /\ protocol # "file:"
        /\ rec.kind = "object")
       => /\ young <=> pc'[r] = "bgFetch"
          /\ ~young <=> pc'[r] = "fetch"
          /\ young => /\ Len(log') = n + 2
                      /\ log'[n + 1].type = "loaded" /\ log'[n + 2].type = "fetch"
                      /\ offers' = rec.data
          /\ ~young => /\ Len(log') = n + 1
                       /\ log'[n + 1].type = "fetch"

C29_FreshIffYoungerThanTTL == [][C29_Step]_vars

\* Two records a millisecond apart: the one aged TTL_MS - 1 was served at
\* once, the one aged TTL_MS waits for its fetch.
C29_WitnessYoung ==
  /\ pc[1] = "bgFetch"
  /\ now - cached[1].timestamp = TTL_MS - 1
  /\ Count("loaded", 1) = 1

C29_Witness ==
  /\ pc[1] = "fetch"
  /\ cached[1].kind = "object"
  /\ now - cached[1].timestamp = TTL_MS
  /\ Count("loaded", 1) = 0

\* ------------------------------------------------------------------- C30
\* C30: the request of a run carries If-None-Match exactly when the record
\* the run read has an etag, and then that etag, and If-Modified-Since exactly
\* when it has a lastModified, and then that one; every run on a networked
\* page that is past its start has sent its one request, with or without
\* validators in the record.
C30_ConditionalHeaders ==
  \A r \in Runs :
    /\ \A i \in Idx("fetch", r) :
         LET h == log[i].arg
             c == cached[r]
         IN /\ h.etag # Undef <=> (c.kind = "object" /\ c.etag \notin {Null, ""})
            /\ h.etag # Undef => h.etag = c.etag
            /\ h.lastModified # Undef
                 <=> (c.kind = "object" /\ c.lastModified \notin {Null, ""})
            /\ h.lastModified # Undef => h.lastModified = c.lastModified
    /\ (protocol # "file:" /\ pc[r] \notin {"off", "start"}) => Count("fetch", r) = 1

\* A stale record with payload and no validator at all was refetched with
\* no conditional header.
C30_Witness ==
  /\ pc[1] = "fetch"
  /\ cached[1].kind = "object"
  /\ cached[1].etag = Null /\ cached[1].lastModified = Null
  /\ \E i \in Idx("fetch", 1) :
       log[i].arg.etag = Undef /\ log[i].arg.lastModified = Undef


\* The links shown as boxes in the container.
Shown == { boxes[i].link : i \in 1 .. Len(boxes) }

\* C21: starting from an empty list and an empty history, after any sequence
\* of generate, single remove and clear-all, whenever no removal is pending
\* the set of links in the persisted history equals the set of links shown as
\* boxes in the container.
C21_HistoryMatchesBoxes == pending = <<>> => Links(history) = Shown


\* The positions of the boxes that carry the class 'latest'.
Latest == { i \in 1 .. Len(boxes) : boxes[i].latest }

\* C22: after any sequence of add (markLatest) and removeByElement, in any
\* interleaving of the completions by animationend or by the fallback timer,
\* whenever no removal is pending and the container is not empty, exactly one
\* box carries the class 'latest'.
C22_ExactlyOneLatest == (pending = <<>> /\ boxes # <<>>) => Cardinality(Latest) = 1


\* Box id is in the container and marked as being deleted.
Deleting(id) == \E i \in 1 .. Len(boxes) : boxes[i].id = id /\ boxes[i].deleting

\* A removeByElement call on box id has not resolved its promise yet.
Unresolved(id) == \E i \in 1 .. Len(pending) : pending[i].box = id

\* C23: every removeByElement call on a box of the container eventually
\* resolves its promise and the box eventually leaves the container, also when
\* no animationend event ever fires: the fallback timer completes the removal,
\* and no box stays marked as being deleted.  A box marked as being deleted
\* always has a removal waiting for it, and whenever removals are waiting a
\* moment follows when all of them have resolved.
C23_RemovalCompletes ==
  /\ [](\A id \in BoxIds(boxes) : Deleting(id) => Unresolved(id))
  /\ (pending # <<>>) ~> (pending = <<>>)

\* A box was removed twice over, by a delete click and by clear-all, and the
\* two removals completed apart from each other; the later one found the box
\* already out of the document, where no animationend reaches it, and was
\* completed by its timer.
C23_Witness ==
  /\ pending = <<>>
  /\ \E i, j \in 1 .. Len(events) :
       /\ i + 1 < j
       /\ events[i].type = "link:removed" /\ events[j].type = "link:removed"
       /\ events[i].box # 0 /\ events[i].box = events[j].box


\* The 'cleared' notifications of clear() call k issued so far.
Cleared(k) == { i \in 1 .. Len(events) : events[i].type = "cleared" /\ events[i].clear = k }
ClearedNext(k) == { i \in 1 .. Len(events') : events'[i].type = "cleared" /\ events'[i].clear = k }

\* The promise of clear() call k resolves in this step.
Resolves(k) == Cleared(k) = {} /\ ClearedNext(k) # {}

C24_Step ==
  \A k \in 1 .. Len(clears) :
    Resolves(k) =>
      /\ clears[k].items \cap BoxIds(boxes') = {}
      /\ made' = clears[k].made => (Len(boxes') = 0 /\ badge' = 0)

C24_Once ==
  \A k \in 1 .. Len(clears) :
    clears[k].items # {} =>
      Cardinality(Cleared(k)) = IF Waiting(pending, k) = {} THEN 1 ELSE 0

\* C24: clear() resolves only after every box that was in the container when
\* it was called has been removed; if no link was added meanwhile, the count
\* of the container and the badge are 0 when the promise resolves; and the
\* 'cleared' notification is issued exactly once per clear() call, when the
\* last of its removals has completed.
C24_ClearResolvesAfterRemovals == [][C24_Step]_vars /\ []C24_Once

\* A clear() that found two boxes has resolved with an empty container.
C24_Witness ==
  \E k \in 1 .. Len(clears) :
    /\ Cardinality(clears[k].items) >= 2
    /\ Cleared(k) # {}
    /\ made = clears[k].made
    /\ boxes = <<>>
    /\ badge = 0


\* The 'link:removed' events dispatched so far.
RemovedEvents == { i \in 1 .. Len(events) : events[i].type = "link:removed" }

\* C25: every 'link:removed' event dispatched by the controller corresponds
\* to one box that was removed and carries the link of that box: it names a
\* link, its box is no longer in the container, and no other 'link:removed'
\* event is about the same box.  In particular none is dispatched for the
\* 'cleared' notification of clear-all.
C25_RemovedEventsNameABox ==
  \A i \in RemovedEvents :
    /\ events[i].link # 0
    /\ events[i].box # 0
    /\ events[i].box \notin BoxIds(boxes)
    /\ \A j \in RemovedEvents : events[j].box = events[i].box => j = i


\* C26: while the user has made no explicit theme choice, a change of the
\* system colour-scheme preference after page load is applied to the page:
\* the theme of the page matches the new preference.
C26_Step ==
  (systemDark' # systemDark /\ themePc = "ready" /\ ~explicit) => pageDark' = systemDark'
C26_SystemChangeApplied == [][C26_Step]_vars


\* ------------------------------------------------------------------- C31
\* The 'offers:updated' events of this step.
UpdatedNow == { i \in DOMAIN log' : i > Len(log) /\ log'[i].type = "updated" }

\* C31: the fetchedAt carried in the detail of an 'offers:updated' event
\* equals the fetchedAt of the record that the same handling of the outcome
\* persisted.
C31_Step ==
  \A i \in UpdatedNow :
    (storageOk /\ log'[i].arg # NoArg) =>
      log'[i].arg.timestamp = readCache(store').timestamp
C31_DetailCarriesPersistedStamp == [][C31_Step]_vars


\* ------------------------------------------------------------------- C32
\* The position in the log of the first effect of the given type of run r.
FirstAt(type, r) == CHOOSE i \in Idx(type, r) : \A j \in Idx(type, r) : i <= j

\* C32: an exception raised while 'offers:loaded' or 'offers:updated' is
\* delivered does not propagate into loadOffers or backgroundRefresh: no run
\* is rejected by it or lands in the catch block of the refresh, and on the
\* fresh-cache path the refresh request still goes out after the failing
\* 'offers:loaded' delivery.
C32_DeliveryFailureIsolated ==
  \A r \in Runs :
    /\ pc[r] # "rejected"
    /\ err[r] # "dispatch"
    /\ pc[r] \in {"bgFetch", "bgJson", "doneBg"} =>
         /\ Count("loaded", r) = 1
         /\ Count("fetch", r) = 1
         /\ FirstAt("loaded", r) < FirstAt("fetch", r)

\* Deliveries raise, and a run has served the cached copy, revalidated it in
\* the background and announced the change.
C32_Witness ==
  /\ handlerThrows
  /\ \E r \in Runs :
       /\ pc[r] = "doneBg"
       /\ Count("loaded", r) = 1
       /\ Count("updated", r) = 1


\* ------------------------------------------------------------------- C33
\* C33: after a Fresh outcome whose write to the store succeeds, in the
\* blocking path and in the background refresh, the served catalog equals the
\* payload of the persisted record, for every JSON body the origin can return.
C33_Step ==
  \A r \in Runs :
    (FreshStep(r) /\ storageOk) => offers' = readCache(store').data
C33_ServedIsPersistedPayload == [][C33_Step]_vars


\* ------------------------------------------------------------------- C34
\* C34: in every reachable state at most one box of the container carries the
\* class 'latest', for any interleaving of add, removeByElement, clear and
\* their completions by animationend or by the fallback timer.
C34_AtMostOneLatest == Cardinality(Latest) <= 1

\* The newest box was removed and the marker has passed to the first of the
\* two boxes left.
C34_Witness ==
  /\ Len(boxes) >= 2
  /\ RemovedEvents # {}
  /\ Latest = {1}
  /\ boxes[1].id # made


\* ------------------------------------------------------------------- C35
\* The 'link:removed' events about box id, one per run of the removal cleanup.
Cleanups(id) == { i \in RemovedEvents : events[i].box = id }

\* C35: for each box removed from the container the removal cleanup (the
\* onRemove callback, hence the removal from the history and 'link:removed')
\* runs exactly once, whatever the interleaving of animationend, the fallback
\* timer, repeated delete requests on the box and a clear() issued while the
\* box is already being deleted: never twice, and once when the box is gone
\* and no removal of it is waiting.
C35_CleanupOncePerBox ==
  \A id \in 1 .. made :
    /\ Cardinality(Cleanups(id)) <= 1
    /\ (id \notin BoxIds(boxes) /\ ~Unresolved(id)) => Cardinality(Cleanups(id)) = 1


\* ------------------------------------------------------------------- C36
\* C36: the badge shows the number of boxes present in the container: after
\* every completed add and every completed removal, and in every state in
\* between, the text of the badge equals the count of .link-box elements.
C36_BadgeIsCount == badge = Len(boxes)

\* A removal has completed and left a box, while another box is fading out.
C36_Witness ==
  /\ RemovedEvents # {}
  /\ Len(boxes) >= 1
  /\ pending # <<>>
  /\ badge = Len(boxes)


\* ------------------------------------------------------------------- C37
\* The 'link:added' events dispatched so far.
AddedEvents == { i \in 1 .. Len(events) : events[i].type = "link:added" }
AddedEventsNext == { i \in 1 .. Len(events') : events'[i].type = "link:added" }

\* C37: pressing the generate button with no code chosen, or with a code
\* that normalizeOfferCode does not accept, changes no state: while the form
\* holds such a code no box is added, no history entry is saved and no
\* 'link:added' event is dispatched.
NoValidCode == Chosen(form) = <<>> \/ ~normalizeOfferCode(Chosen(form)).valid

C37_Step ==
  NoValidCode =>
    /\ made' = made
    /\ BoxIds(boxes') \subseteq BoxIds(boxes)
    /\ Links(history') \subseteq Links(history)
    /\ AddedEventsNext = AddedEvents
C37_InvalidCodeAddsNothing == [][C37_Step]_vars

\* A link is shown, and the form now holds a code with a character that is
\* not allowed, and the list has room for more.
C37_Witness ==
  /\ NoValidCode
  /\ Chosen(form) = <<"a", "!">>
  /\ Len(boxes) = 1
  /\ made + Len(clears) < MaxClicks

====
